---- MODULE Spec2Model ----
(***************************************************************************)
(* Model of src/main.py: readline, tail_file and run_threads (the "tail    *)
(* and merge" utility).  Every source handle is a binary file that another *)
(* process appends to and that its owner may close at any moment.          *)
(*                                                                         *)
(* Spec        run_threads(handles, interval, output_path) with one        *)
(*             tail_file thread per handle, beside the appending/closing   *)
(*             environment.                                                *)
(* SpecFair    Spec with the scheduler's fairness on the program's threads.*)
(* SpecIdle    SpecFair with a first source that never receives a byte.    *)
(* SpecReader  readline(handle) called again and again on one handle,      *)
(*             beside the same environment.                                *)
(***************************************************************************)
EXTENDS Naturals, Integers, Sequences, FiniteSets, Bags, TLC

\* Largest number of bytes ever appended to one source.
MaxLen == 2

\* The handles argument of run_threads: a list of distinct open handles.
handles == <<1, 2>>

H == {handles[k] : k \in 1..Len(handles)}

\* The bytes a source may receive: a payload byte and the line terminator.
Byte == {"a", "\n"}

VARIABLES
    content,     \* content[h]: the bytes of the file behind handle h
    closed,      \* closed[h]: handle.closed
    pos,         \* pos[h]: the handle's file position (what handle.tell() gives)
    pc,          \* pc[h]: where the code working on handle h stands
    offset,      \* offset[h]: readline's local offset
    length,      \* length[h]: readline's local length
    res,         \* res[h]: how the last readline call on h ended
    exc,         \* exc[h]: the exception that ended h's thread, or "none"
    returned,    \* returned[h]: the values readline has returned for h, in order
    writeCalls,  \* the arguments write was called with, in call order
    mainpc,      \* where run_threads stands
    threads,     \* run_threads' local list threads (by handle)
    joined,      \* how many threads of that list have been joined
    lock,        \* run_threads' local lock
    outOpen,     \* whether the destination handle is open
    output       \* the writes the destination has received, in order

vars == <<content, closed, pos, pc, offset, length, res, exc, returned,
          writeCalls, mainpc, threads, joined, lock, outOpen, output>>

handleVars == <<content, closed, pos, offset, length, returned>>
mainVars == <<mainpc, threads, joined, lock, outOpen, output>>

NoRes == [kind |-> "none", line |-> <<>>]

----------------------------------------------------------------------------
(* Files *)

Min(S) == CHOOSE x \in S : \A y \in S : x <= y

\* A read that always goes to the end of the file: handle.read().
LineEnd_eof(c, p) == Len(c)

\* handle.readline() of a binary file at position p of bytes c: the index of
\* the last byte read, i.e. the first newline after p, or the end of the file.
LineEnd(c, p) ==
    LET nl == {k \in (p + 1)..Len(c) : c[k] = "\n"}
    IN  IF nl = {} THEN Len(c) ELSE Min(nl)

file_readline(c, p) == SubSeq(c, p + 1, LineEnd(c, p))

\* A seek that measures every offset from the end of the file, whatever whence.
file_seek_from_end(c, p, off, whence) == Len(c) + off

\* A seek that goes back to the start of the file instead of to offset.
file_seek_rewind(c, p, off, whence) == IF whence = 2 THEN Len(c) + off ELSE 0

\* handle.seek(off, whence) on a file of bytes c at position p: the new
\* position, measured from the start (0), the position (1) or the end (2).
file_seek(c, p, off, whence) ==
    CASE whence = 0 -> off
      [] whence = 1 -> p + off
      [] whence = 2 -> Len(c) + off

\* A readline that never reports NoNewData.
no_new_data_never(len, off) == FALSE

\* if length == offset: raise NoNewData
no_new_data(len, off) == len = off

----------------------------------------------------------------------------
(* The environment: a writer appending to a source, an owner closing it *)

AppendByte(h, b) ==
    /\ ~closed[h]
    /\ Len(content[h]) < MaxLen
    /\ content' = [content EXCEPT ![h] = Append(@, b)]
    /\ UNCHANGED <<closed, pos, pc, offset, length, res, exc, returned,
                   writeCalls>>
    /\ UNCHANGED mainVars

CloseSource(h) ==
    /\ ~closed[h]
    /\ closed' = [closed EXCEPT ![h] = TRUE]
    /\ UNCHANGED <<content, pos, pc, offset, length, res, exc, returned,
                   writeCalls>>
    /\ UNCHANGED mainVars

----------------------------------------------------------------------------
(* readline(handle), statement by statement.  Any operation on a closed    *)
(* file raises ValueError, which readline does not catch.  The locals      *)
(* offset and length end with the call.                                    *)

Leave(h, result) ==
    /\ res' = [res EXCEPT ![h] = result]
    /\ offset' = [offset EXCEPT ![h] = 0]
    /\ length' = [length EXCEPT ![h] = 0]
    /\ pc' = [pc EXCEPT ![h] = "rl_ret"]

Raise(h, kind) == Leave(h, [kind |-> kind, line |-> <<>>])

\* line 6: offset = handle.tell()
rl_tell_offset(h) ==
    /\ pc[h] = "rl6"
    /\ IF closed[h]
       THEN Raise(h, "ValueError")
       ELSE /\ offset' = [offset EXCEPT ![h] = pos[h]]
            /\ pc' = [pc EXCEPT ![h] = "rl7"]
            /\ UNCHANGED <<length, res>>
    /\ UNCHANGED <<content, closed, pos, exc, returned, writeCalls>>
    /\ UNCHANGED mainVars

\* A readline that keeps one position for all the handles.
rl_seek_end_shared(h) ==
    /\ pc[h] = "rl7"
    /\ ~closed[h]
    /\ pos' = [g \in H |-> file_seek(content[h], pos[h], 0, 2)]
    /\ pc' = [pc EXCEPT ![h] = "rl8"]
    /\ UNCHANGED <<offset, length, res>>
    /\ UNCHANGED <<content, closed, exc, returned, writeCalls>>
    /\ UNCHANGED mainVars

\* line 7: handle.seek(0, 2)
rl_seek_end(h) ==
    /\ pc[h] = "rl7"
    /\ IF closed[h]
       THEN /\ Raise(h, "ValueError")
            /\ UNCHANGED pos
       ELSE /\ pos' = [pos EXCEPT ![h] = file_seek(content[h], pos[h], 0, 2)]
            /\ pc' = [pc EXCEPT ![h] = "rl8"]
            /\ UNCHANGED <<offset, length, res>>
    /\ UNCHANGED <<content, closed, exc, returned, writeCalls>>
    /\ UNCHANGED mainVars

\* line 8: length = handle.tell()
rl_tell_length(h) ==
    /\ pc[h] = "rl8"
    /\ IF closed[h]
       THEN Raise(h, "ValueError")
       ELSE /\ length' = [length EXCEPT ![h] = pos[h]]
            /\ pc' = [pc EXCEPT ![h] = "rl10"]
            /\ UNCHANGED <<offset, res>>
    /\ UNCHANGED <<content, closed, pos, exc, returned, writeCalls>>
    /\ UNCHANGED mainVars

\* lines 10-11: if length == offset: raise NoNewData
rl_compare(h) ==
    /\ pc[h] = "rl10"
    /\ IF no_new_data(length[h], offset[h])
       THEN Raise(h, "NoNewData")
       ELSE /\ pc' = [pc EXCEPT ![h] = "rl13"]
            /\ UNCHANGED <<offset, length, res>>
    /\ UNCHANGED <<content, closed, pos, exc, returned, writeCalls>>
    /\ UNCHANGED mainVars

\* line 13: handle.seek(offset, 0)
rl_seek_back(h) ==
    /\ pc[h] = "rl13"
    /\ IF closed[h]
       THEN /\ Raise(h, "ValueError")
            /\ UNCHANGED pos
       ELSE /\ pos' = [pos EXCEPT ![h] =
                         file_seek(content[h], pos[h], offset[h], 0)]
            /\ pc' = [pc EXCEPT ![h] = "rl14"]
            /\ UNCHANGED <<offset, length, res>>
    /\ UNCHANGED <<content, closed, exc, returned, writeCalls>>
    /\ UNCHANGED mainVars

\* line 14: return handle.readline()
rl_return_line(h) ==
    /\ pc[h] = "rl14"
    /\ IF closed[h]
       THEN /\ Raise(h, "ValueError")
            /\ UNCHANGED <<pos, returned>>
       ELSE LET ln == file_readline(content[h], pos[h])
            IN  /\ pos' = [pos EXCEPT ![h] = pos[h] + Len(ln)]
                /\ returned' = [returned EXCEPT ![h] = Append(@, ln)]
                /\ Leave(h, [kind |-> "line", line |-> ln])
    /\ UNCHANGED <<content, closed, exc, writeCalls>>
    /\ UNCHANGED mainVars

readline(h) ==
    \/ rl_tell_offset(h)
    \/ rl_seek_end(h)
    \/ rl_tell_length(h)
    \/ rl_compare(h)
    \/ rl_seek_back(h)
    \/ rl_return_line(h)

----------------------------------------------------------------------------
(* tail_file(handle, interval, write_func), running in its own thread.     *)
(* An exception that leaves tail_file ends the thread; threading reports   *)
(* it and nothing else is affected.                                        *)

EndThread(h, kind) ==
    /\ exc' = [exc EXCEPT ![h] = kind]
    /\ res' = [res EXCEPT ![h] = NoRes]
    /\ pc' = [pc EXCEPT ![h] = "ended"]

\* A loop that never tests the handle: while True.
loop_test_always(isClosed) == TRUE

\* line 21: the loop test, not handle.closed
loop_test(isClosed) == ~isClosed

\* line 21: while not handle.closed
tf_while(h) ==
    /\ pc[h] = "tf21"
    /\ IF loop_test(closed[h])
       THEN /\ pc' = [pc EXCEPT ![h] = "rl6"]
            /\ UNCHANGED <<exc, res>>
       ELSE EndThread(h, "none")
    /\ UNCHANGED <<writeCalls>>
    /\ UNCHANGED handleVars
    /\ UNCHANGED mainVars

\* lines 24-25: except NoNewData: time.sleep(intervale).  The name intervale
\* is bound nowhere (the parameter is interval): evaluating it raises
\* NameError before time.sleep is called, inside the handler, so it leaves
\* tail_file.
tf_except(h) ==
    /\ pc[h] = "rl_ret"
    /\ res[h].kind = "NoNewData"
    /\ EndThread(h, "NameError")
    /\ UNCHANGED <<writeCalls>>
    /\ UNCHANGED handleVars
    /\ UNCHANGED mainVars

\* lines 22-23: an exception of readline other than NoNewData is not caught.
tf_uncaught(h) ==
    /\ pc[h] = "rl_ret"
    /\ res[h].kind = "ValueError"
    /\ EndThread(h, "ValueError")
    /\ UNCHANGED <<writeCalls>>
    /\ UNCHANGED handleVars
    /\ UNCHANGED mainVars

\* lines 26-27: else: write_func(line), entering run_threads' closure write.
tf_else(h) ==
    /\ pc[h] = "rl_ret"
    /\ res[h].kind = "line"
    /\ writeCalls' = Append(writeCalls, [src |-> h, data |-> res[h].line])
    /\ pc' = [pc EXCEPT ![h] = "w37"]
    /\ UNCHANGED <<exc, res>>
    /\ UNCHANGED handleVars
    /\ UNCHANGED mainVars

\* A write that takes the guard and dies without giving it back.
write_keeps_guard(h) ==
    /\ pc[h] = "w37"
    /\ lock' = "locked"
    /\ exc' = [exc EXCEPT ![h] = "TypeError"]
    /\ res' = [res EXCEPT ![h] = NoRes]
    /\ pc' = [pc EXCEPT ![h] = "ended"]
    /\ UNCHANGED <<writeCalls, mainpc, threads, joined, outOpen, output>>
    /\ UNCHANGED handleVars

\* line 37: with Lock.  Lock is threading.Lock itself, the factory, not the
\* lock made at line 35; it has no __enter__, so the with statement raises
\* TypeError before line 38 runs.  The else clause of tail_file's try is not
\* guarded, so the exception leaves tail_file.
write(h) ==
    /\ pc[h] = "w37"
    /\ EndThread(h, "TypeError")
    /\ UNCHANGED <<writeCalls>>
    /\ UNCHANGED handleVars
    /\ UNCHANGED mainVars

tail_file(h) ==
    \/ tf_while(h)
    \/ tf_except(h)
    \/ tf_uncaught(h)
    \/ tf_else(h)
    \/ write(h)

----------------------------------------------------------------------------
(* run_threads(handles, interval, output_path), in the calling thread *)

\* line 34: with open(output_path, "wb") as output
rt_open ==
    /\ mainpc = "rt34"
    /\ outOpen' = TRUE
    /\ output' = <<>>
    /\ mainpc' = "rt35"
    /\ UNCHANGED <<threads, joined, lock>>
    /\ UNCHANGED <<pc, res, exc, writeCalls>>
    /\ UNCHANGED handleVars

\* lines 35-40: lock = Lock(); def write; threads = []
rt_lock ==
    /\ mainpc = "rt35"
    /\ lock' = "unlocked"
    /\ threads' = <<>>
    /\ mainpc' = "rt41"
    /\ UNCHANGED <<joined, outOpen, output>>
    /\ UNCHANGED <<pc, res, exc, writeCalls>>
    /\ UNCHANGED handleVars

\* lines 41-45: for handle in handles: start a thread on tail_file, keep it
rt_start ==
    /\ mainpc = "rt41"
    /\ Len(threads) < Len(handles)
    /\ LET h == handles[Len(threads) + 1]
       IN  /\ pc' = [pc EXCEPT ![h] = "tf21"]
           /\ threads' = Append(threads, h)
    /\ mainpc' = IF Len(threads') = Len(handles) THEN "rt47" ELSE "rt41"
    /\ UNCHANGED <<joined, lock, outOpen, output>>
    /\ UNCHANGED <<res, exc, writeCalls>>
    /\ UNCHANGED handleVars

\* A join that does not wait.
thread_alive_never(h) == FALSE

\* Thread.join returns once the thread has ended, however it ended.
thread_alive(h) == pc[h] # "ended"

\* lines 47-48: for thread in threads: thread.join()
rt_join ==
    /\ mainpc = "rt47"
    /\ joined < Len(threads)
    /\ ~thread_alive(threads[joined + 1])
    /\ joined' = joined + 1
    /\ mainpc' = IF joined' = Len(threads) THEN "rt_exit" ELSE "rt47"
    /\ UNCHANGED <<threads, lock, outOpen, output>>
    /\ UNCHANGED <<pc, res, exc, writeCalls>>
    /\ UNCHANGED handleVars

\* line 34, leaving the with block: output is closed, run_threads returns
rt_exit ==
    /\ mainpc = "rt_exit"
    /\ outOpen' = FALSE
    /\ mainpc' = "returned"
    /\ UNCHANGED <<threads, joined, lock, output>>
    /\ UNCHANGED <<pc, res, exc, writeCalls>>
    /\ UNCHANGED handleVars

run_threads ==
    \/ rt_open
    \/ rt_lock
    \/ rt_start
    \/ rt_join
    \/ rt_exit

----------------------------------------------------------------------------
(* Specifications *)

InitHandles ==
    /\ content = [h \in H |-> <<>>]
    /\ closed = [h \in H |-> FALSE]
    /\ pos = [h \in H |-> 0]
    /\ offset = [h \in H |-> 0]
    /\ length = [h \in H |-> 0]
    /\ res = [h \in H |-> NoRes]
    /\ exc = [h \in H |-> "none"]
    /\ returned = [h \in H |-> <<>>]
    /\ writeCalls = <<>>
    /\ mainpc = "rt34"
    /\ threads = <<>>
    /\ joined = 0
    /\ lock = "none"
    /\ outOpen = FALSE
    /\ output = <<>>

Init ==
    /\ InitHandles
    /\ pc = [h \in H |-> "unstarted"]

Environment == \E h \in H : CloseSource(h) \/ \E b \in Byte : AppendByte(h, b)

Next ==
    \/ Environment
    \/ run_threads
    \/ \E h \in H : tail_file(h)
    \/ \E h \in H : readline(h)

Spec == Init /\ [][Next]_vars

\* The scheduler lets every thread that can take a step take one in the end;
\* nothing obliges the environment to append or to close.
Thread(h) == tail_file(h) \/ readline(h)

SpecFair == Spec /\ WF_vars(run_threads) /\ \A h \in H : WF_vars(Thread(h))

\* run_threads beside an environment that never writes a byte to the first
\* source: it can only close it, at any moment.  The other sources are
\* appended to and closed as in Spec.
Written == H \ {handles[1]}

EnvironmentIdle ==
    \/ \E h \in H : CloseSource(h)
    \/ \E h \in Written : \E b \in Byte : AppendByte(h, b)

NextIdle ==
    \/ EnvironmentIdle
    \/ run_threads
    \/ \E h \in H : tail_file(h)
    \/ \E h \in H : readline(h)

SpecIdle ==
    /\ Init /\ [][NextIdle]_vars
    /\ WF_vars(run_threads) /\ \A h \in H : WF_vars(Thread(h))

\* readline called directly, again and again, on one handle that is appended
\* to and closed as in Spec.
reader_call(h) ==
    /\ pc[h] \in {"idle", "rl_ret"}
    /\ pc' = [pc EXCEPT ![h] = "rl6"]
    /\ UNCHANGED <<res, exc, writeCalls>>
    /\ UNCHANGED handleVars
    /\ UNCHANGED mainVars

Read == {handles[1]}

InitReader ==
    /\ InitHandles
    /\ pc = [h \in H |-> "idle"]

NextReader ==
    \/ \E h \in Read : CloseSource(h) \/ \E b \in Byte : AppendByte(h, b)
    \/ \E h \in Read : reader_call(h)
    \/ \E h \in Read : readline(h)

SpecReader == InitReader /\ [][NextReader]_vars

----------------------------------------------------------------------------
(* Vocabulary of the properties *)

RECURSIVE Concat(_)
Concat(ss) == IF ss = <<>> THEN <<>> ELSE Head(ss) \o Concat(Tail(ss))

BagOf(ss) ==
    [x \in {ss[k] : k \in DOMAIN ss} |->
        Cardinality({k \in DOMAIN ss : ss[k] = x})]

\* The lines of a file's bytes, an unterminated last one included.
RECURSIVE Lines(_)
Lines(c) ==
    IF c = <<>> THEN <<>>
    ELSE <<file_readline(c, 0)>> \o Lines(SubSeq(c, LineEnd(c, 0) + 1, Len(c)))

Complete(c) == c = <<>> \/ c[Len(c)] = "\n"

Data(ws) == [k \in DOMAIN ws |-> ws[k].data]
OutputOf(h) == Data(SelectSeq(output, LAMBDA w : w.src = h))

Ended(h) == pc[h] = "ended"
InReadline(h) == pc[h] \in {"rl7", "rl8", "rl10", "rl13", "rl14"}
InWrite(h) == pc[h] = "w37"
HoldsLine(h) == (pc[h] = "rl_ret" /\ res[h].kind = "line") \/ InWrite(h)

\* The cursor of a source: its handle's position between readline calls.
\* Inside a call, after line 6, it is what the call saved in offset.
Cursor(h) == IF InReadline(h) THEN offset[h] ELSE pos[h]

----------------------------------------------------------------------------
(* Properties *)

\* C1: when run_threads has returned and every source received M complete
\* lines, all of them read by its watcher, and was closed, the destination
\* holds exactly N*M lines, the lines of every source exactly once each.
C1_AllLinesMerged ==
    \A M \in 1..MaxLen :
        (/\ mainpc = "returned"
         /\ \A h \in H : /\ closed[h]
                         /\ Complete(content[h])
                         /\ Len(Lines(content[h])) = M
                         /\ Concat(returned[h]) = content[h])
        => /\ Len(output) = Len(handles) * M
           /\ \A h \in H : BagOf(OutputOf(h)) = BagOf(Lines(content[h]))

\* C2: a watcher that passes the with statement of write has acquired the
\* guard made by run_threads, and at most one watcher is past it at a time.
C2_WriteAcquiresGuard ==
    [][\A h \in H : (pc[h] = "w37" /\ pc'[h] # "w37")
                        => (lock' = "locked" /\ ~Ended(h)')]_vars

\* C3: every line readline has handed to tail_file for a source is in the
\* destination, once, in the source's order, as soon as tail_file has moved
\* on from it.
C3_SourceOrder ==
    \A h \in H : ~HoldsLine(h) => OutputOf(h) = returned[h]

\* C4: a watcher whose poll ended with NoNewData does not end: its next step
\* leaves it running (sleeping, then polling again).
C4_EmptyPollKeepsRunning ==
    [][\A h \in H : (pc[h] = "rl_ret" /\ res[h].kind = "NoNewData")
                        => pc'[h] # "ended"]_vars

\* C5: absent an I/O failure, a watcher that has ended has a closed source.
C5_EndedOnlyIfClosed ==
    \A h \in H : (Ended(h) /\ exc[h] # "ValueError") => closed[h]

\* C6 as stated: a watcher only ever ends by leaving its loop, and run_threads
\* has not returned while a watcher runs.
C6_EndsByLoopExit ==
    /\ \A h \in H : Ended(h) => exc[h] = "none"
    /\ mainpc = "returned" => \A h \in H : Ended(h)

\* C6 amended: if every source is eventually closed then, under fair
\* scheduling, every watcher eventually ends, by leaving its loop or by an
\* exception it does not handle, and run_threads eventually returns;
\* run_threads has not left its joins while a watcher runs.
C6_JoinAllTerminates ==
    /\ [](mainpc \in {"rt_exit", "returned"} => \A h \in H : Ended(h))
    /\ (<>[](\A h \in H : closed[h]))
           => <>(mainpc = "returned" /\ \A h \in H : Ended(h))

C6_Reached ==
    /\ mainpc = "returned"
    /\ \A h \in H : closed[h] /\ Ended(h)
    /\ \E h \in H : exc[h] = "none"
    /\ \E h \in H : exc[h] # "none"

\* C7: a readline call that finds the cursor at the end of the source raises
\* NoNewData and leaves the cursor where it was, the first time and every time
\* after; the values readline has returned are consecutive pieces of the
\* source from its start, up to the cursor while the source is open, so none
\* is returned twice.
C7_NoNewDataKeepsCursor ==
    /\ [][\A h \in H : (pc[h] = "rl10" /\ pc'[h] # "rl10")
              => IF offset[h] = pos[h]
                 THEN /\ res'[h].kind = "NoNewData"
                      /\ pos'[h] = offset[h]
                      /\ returned'[h] = returned[h]
                 ELSE pc'[h] = "rl13" /\ res'[h] = res[h]]_vars
    /\ [](\A h \in H :
              LET got == Concat(returned[h])
              IN  /\ Len(got) <= Len(content[h])
                  /\ got = SubSeq(content[h], 1, Len(got))
                  /\ ~closed[h] => Len(got) = Cursor(h))

\* A call about to raise NoNewData, right after a call that raised it, for a
\* source that has already given a line.
C7_Reached ==
    \E h \in H : /\ pc[h] = "rl10"
                 /\ offset[h] = length[h]
                 /\ res[h].kind = "NoNewData"
                 /\ returned[h] # <<>>

\* C8: the cursor of a source is never beyond the source's length and never
\* moves backwards.
C8_CursorBoundedMonotonic ==
    /\ [](\A h \in H : Cursor(h) <= Len(content[h]))
    /\ [][\A h \in H : Cursor(h)' >= Cursor(h)]_vars

\* A source read to its end in two calls at least.
C8_Reached ==
    \E h \in H : /\ pc[h] = "rl_ret"
                 /\ Len(returned[h]) >= 2
                 /\ Cursor(h) = Len(content[h])

\* C9: whenever no watcher is inside write, the destination holds the
\* payloads of the write calls made so far, each whole and once.
C9_OutputIsWholePayloads ==
    (\A h \in H : ~InWrite(h)) => BagOf(output) = BagOf(writeCalls)

\* C10: when a watcher has ended with a read failure, every other started
\* watcher whose source is open is still running.
C10_OthersKeepRunning ==
    \A h, g \in H :
        (/\ h # g
         /\ Ended(h) /\ exc[h] = "ValueError"
         /\ pc[g] # "unstarted" /\ ~closed[g])
        => ~Ended(g)

\* C11: the destination is open whenever a watcher thread is running and
\* whenever write has been entered; run_threads closes it only once every
\* thread has been joined, and it is closed when run_threads has returned,
\* also when a watcher ended with an exception.
C11_DestinationOpenWhileWatched ==
    /\ [](\A h \in H : (pc[h] \notin {"unstarted", "ended"}) => outOpen)
    /\ [](mainpc = "returned" => (~outOpen /\ \A h \in H : Ended(h)))
    /\ [][(outOpen /\ ~outOpen')
              => (joined = Len(handles) /\ \A h \in H : Ended(h))]_vars

\* run_threads has returned after a watcher entered write and died there.
C11_Reached ==
    /\ mainpc = "returned"
    /\ ~outOpen
    /\ writeCalls # <<>>
    /\ \E h \in H : exc[h] = "TypeError"

\* C12: a line that a watcher has read is written to the destination: once
\* the watcher's thread has ended, every value readline returned to it is
\* among the destination's writes.
C12_ReadLinesAreWritten ==
    \A h \in H :
        Ended(h) =>
            \A k \in DOMAIN returned[h] :
                \E j \in DOMAIN output :
                    output[j] = [src |-> h, data |-> returned[h][k]]

\* C13 as stated: a watcher whose source was closed with no byte ever written
\* has called write zero times and, once ended, has ended by leaving its loop.
C13_EmptySourceLoopExit ==
    \A h \in H :
        (closed[h] /\ content[h] = <<>>) =>
            /\ \A k \in DOMAIN writeCalls : writeCalls[k].src # h
            /\ Ended(h) => exc[h] = "none"

\* C13 amended: a source closed with no byte ever written causes zero write
\* calls by its watcher, and under fair scheduling its watcher's thread ends:
\* by leaving its loop when the loop test of line 21 finds the source closed
\* (so always when the close comes before the thread starts), by an
\* exception it does not handle otherwise.
C13_EmptySourceEnds ==
    /\ [](\A h \in H :
              (closed[h] /\ content[h] = <<>>) =>
                  \A k \in DOMAIN writeCalls : writeCalls[k].src # h)
    /\ [][\A h \in H :
              (closed[h] /\ content[h] = <<>>
                   /\ pc[h] = "tf21" /\ pc'[h] # "tf21")
              => (Ended(h)' /\ exc'[h] = "none")]_vars
    /\ []<>(\A h \in H : (closed[h] /\ content[h] = <<>>) => Ended(h))

\* Two sources closed empty: one watcher left its loop, the other was caught
\* by the close inside readline.
C13_Reached ==
    /\ \A h \in H : closed[h] /\ content[h] = <<>> /\ Ended(h)
    /\ \E h \in H : exc[h] = "none"
    /\ \E h \in H : exc[h] = "ValueError"

FileOp(h) == pc[h] \in {"rl6", "rl7", "rl8", "rl13", "rl14"}

\* C14 as stated: a watcher that ends while its source is closed ends by
\* leaving its loop, wherever in its cycle the close found it.
C14_CloseEndsByLoopExit ==
    [][\A h \in H : (closed[h] /\ ~Ended(h) /\ Ended(h)')
                        => exc'[h] = "none"]_vars

\* C14 amended: a close that the loop test of line 21 finds ends the watcher
\* by normal loop exit; a close that finds the watcher inside readline, before
\* one of the file operations of lines 6, 7, 8, 13 and 14, makes that
\* operation raise ValueError, which tail_file does not catch: the thread ends
\* by that exception.  A watcher ends without exception, or with ValueError,
\* only on a closed source.
C14_CloseInsideReadlineRaises ==
    /\ [][\A h \in H : (closed[h] /\ pc[h] = "tf21" /\ pc'[h] # "tf21")
                           => (Ended(h)' /\ exc'[h] = "none")]_vars
    /\ [][\A h \in H : (closed[h] /\ FileOp(h) /\ pc'[h] # pc[h])
                           => (pc'[h] = "rl_ret"
                               /\ res'[h].kind = "ValueError")]_vars
    /\ [][\A h \in H : (pc[h] = "rl_ret" /\ res[h].kind = "ValueError"
                            /\ pc'[h] # "rl_ret")
                           => (Ended(h)' /\ exc'[h] = "ValueError")]_vars
    /\ [](\A h \in H : (Ended(h) /\ exc[h] \in {"none", "ValueError"})
                           => closed[h])

\* One watcher met the close at its loop test, the other inside readline
\* after it had moved the position to the end of its source.
C14_Reached ==
    /\ \E h \in H : Ended(h) /\ exc[h] = "none" /\ closed[h]
    /\ \E h \in H : /\ Ended(h) /\ exc[h] = "ValueError"
                    /\ pos[h] = Len(content[h]) /\ pos[h] > 0

\* C15: when the cursor is below the source's length, readline returns the
\* bytes of the source from the cursor up to and including the first newline,
\* or up to the end of the source when there is no newline yet, and leaves the
\* cursor advanced by the number of bytes returned; what is appended after a
\* fragment is returned by a later call.
C15_ReturnsOneLine ==
    [][\A h \in H :
          (pc[h] = "rl14" /\ pc'[h] # "rl14" /\ ~closed[h]) =>
              LET ln == res'[h].line
                  n == Len(ln)
              IN  /\ res'[h].kind = "line"
                  /\ offset[h] < Len(content[h])
                  /\ n >= 1
                  /\ offset[h] + n <= Len(content[h])
                  /\ \A k \in 1..n : ln[k] = content[h][offset[h] + k]
                  /\ \A k \in 1..(n - 1) : ln[k] # "\n"
                  /\ (ln[n] = "\n" \/ offset[h] + n = Len(content[h]))
                  /\ pos'[h] = offset[h] + n
                  /\ returned'[h] = Append(returned[h], ln)]_vars

\* A fragment was returned, and what was appended after it by a later call.
C15_Reached ==
    \E h \in H : /\ pc[h] = "rl_ret"
                 /\ returned[h] = << <<"a">>, <<"\n">> >>
                 /\ res[h].kind = "line"

\* C16: the guard is free in every state in which no watcher is inside
\* write, so no watcher holds it while it reads its source or after its
\* thread has ended; and a watcher that has entered write can always take
\* its next step: none is left waiting for the guard.
C16_GuardFreeOutsideWrite ==
    /\ (\A h \in H : ~InWrite(h)) => lock # "locked"
    /\ \A h \in H : InWrite(h) => ENABLED write(h)

\* One watcher has been through write and ended, another is reading its
\* source, and the guard is free.
C16_Reached ==
    /\ lock = "unlocked"
    /\ \E h \in H : Ended(h) /\ exc[h] = "TypeError"
    /\ \E h \in H : InReadline(h)

Local(h) == <<pos[h], offset[h], length[h], res[h], returned[h], exc[h],
              content[h], closed[h]>>

\* C17: a step of the watcher of one handle leaves the position, the readline
\* locals, the results and the source of every other handle as they were; the
\* position of a handle changes only in a step of its own watcher inside
\* readline (lines 7, 13 and 14); what a watcher's step changes beyond its own
\* handle is the record of calls to write only.
C17_CursorsArePrivate ==
    /\ [][\A h \in H : pc'[h] # pc[h] =>
              /\ \A g \in H \ {h} : Local(g)' = Local(g) /\ pc'[g] = pc[g]
              /\ pc[h] # "unstarted" => UNCHANGED mainVars]_vars
    /\ [][\A h \in H : pos'[h] # pos[h] =>
              (pc[h] \in {"rl7", "rl13", "rl14"} /\ pc'[h] # pc[h])]_vars

\* Both watchers have moved their own cursor, to different places.
C17_Reached ==
    /\ pos[handles[1]] = 1
    /\ pos[handles[2]] = 2
    /\ \A h \in H : Ended(h) /\ returned[h] # <<>>

\* C18: run_threads has started one watcher per handle before it waits on
\* any, and while it is still joining the first thread, which is running,
\* the lines a later watcher has read and passed to write are in the
\* destination.
C18_LaterSourcesDelivered ==
    /\ mainpc \in {"rt47", "rt_exit", "returned"}
           => (threads = handles /\ \A h \in H : pc[h] # "unstarted")
    /\ (mainpc = "rt47" /\ joined = 0 /\ ~Ended(handles[1]))
           => \A k \in 2..Len(handles) :
                  ~HoldsLine(handles[k])
                      => OutputOf(handles[k]) = returned[handles[k]]

====
